---------------------------- MODULE Spec2Model ----------------------------
(***************************************************************************)
(* A model of cookbooker's acquisition pipeline (cookbooker.py): main's    *)
(* download branch, download_images with its ThreadPool, fetch_image's     *)
(* retry loop, get_url_replacements / re.sub, and determine_filetype.      *)
(*                                                                         *)
(* Strings are sequences of one-character strings, byte strings are        *)
(* sequences of numbers 0..255.                                            *)
(***************************************************************************)
EXTENDS Integers, Sequences, FiniteSets, TLC

(***************************************************************************)
(* Bounds of the model.                                                    *)
(***************************************************************************)
\* largest page count of a full run
MaxPages == 3
\* page counts above the pool width in the pool-saturation runs
MaxExtra == 1
\* results a run lets wait in the pool's result queue
MaxQueued == 1
\* segments a templated base URL is built from
MaxSegs == 3
\* bytes appended after a signature prefix in the sniffer's inputs
MaxTail == 1
\* values a random draw takes at each end of its range
MaxDraw == 2
\* entries of a directory handed to find_images
MaxFiles == 3

(***************************************************************************)
(* Text helpers.                                                           *)
(***************************************************************************)
\* a string literal as the sequence of its characters
Chars(s) == [k \in 1..Len(s) |-> SubSeq(s, k, k)]

DigitChar == Chars("0123456789")

Digits == {DigitChar[k] : k \in 1..Len(DigitChar)}

RECURSIVE Str(_)
\* f"{i}" for a non-negative integer
Str(i) ==
    IF i < 10 THEN <<DigitChar[i + 1]>>
    ELSE Str(i \div 10) \o <<DigitChar[(i % 10) + 1]>>

\* s[:n]
Take(s, n) == SubSeq(s, 1, IF n < Len(s) THEN n ELSE Len(s))

\* needle in haystack, for strings
Contains(haystack, needle) ==
    \E j \in 1..(Len(haystack) - Len(needle) + 1) :
        SubSeq(haystack, j, j + Len(needle) - 1) = needle

(***************************************************************************)
(* get_url_replacements and re.sub.                                        *)
(***************************************************************************)
\* the replacement string "seq="
Replacement == Chars("seq=")

RECURSIVE DigitsEnd(_, _)
\* last position of the run of digits that \d+ consumes greedily from pos on
DigitsEnd(s, pos) ==
    IF pos + 1 <= Len(s) /\ s[pos + 1] \in Digits THEN DigitsEnd(s, pos + 1)
    ELSE pos

\* the pattern seq=\d+ matches at position pos of s
MatchAt(s, pos) ==
    /\ pos + 4 <= Len(s)
    /\ s[pos] = "s"
    /\ s[pos + 1] = "e"
    /\ s[pos + 2] = "q"
    /\ s[pos + 3] = "="
    /\ s[pos + 4] \in Digits

\* last position of the match that starts at pos
MatchEnd(s, pos) == DigitsEnd(s, pos + 4)

RECURSIVE SubFrom(_, _, _, _)
\* re.sub's scan from pos on; left is the number of replacements still
\* allowed, -1 for no limit (count=0)
SubFrom(s, pos, repl, left) ==
    IF pos > Len(s) THEN <<>>
    ELSE IF MatchAt(s, pos) /\ left # 0
        THEN repl \o SubFrom(s, MatchEnd(s, pos) + 1, repl,
                             IF left > 0 THEN left - 1 ELSE left)
    ELSE <<s[pos]>> \o SubFrom(s, pos + 1, repl, left)

\* a substitution that stops after the first match (count=1)
SubCountOne(repl, s) == SubFrom(s, 1, repl, 1)

\* expression.sub(repl, s) with expression = re.compile(r"seq=\d+")
Sub(repl, s) == SubFrom(s, 1, repl, -1)

\* range(0, npages)
PageRangeFromZero(n) == [k \in 1..n |-> k - 1]

\* range(1, npages + 1), as the sequence of its values
PageRange(n) == [k \in 1..n |-> k]

\* the url_info list download_images builds
DeriveWorkItems(url, n) ==
    [k \in 1..n |->
        <<PageRange(n)[k], Sub(Replacement \o Str(PageRange(n)[k]), url)>>]

(***************************************************************************)
(* bytes.hex(), str.upper() and determine_filetype.                        *)
(***************************************************************************)
HexDigit == Chars("0123456789abcdef")

\* bytes.hex(): two lowercase hexadecimal digits a byte
Hex(b) ==
    [k \in 1..(2 * Len(b)) |->
        IF k % 2 = 1 THEN HexDigit[(b[(k + 1) \div 2] \div 16) + 1]
        ELSE HexDigit[(b[k \div 2] % 16) + 1]]

LowerAlpha == Chars("abcdefghijklmnopqrstuvwxyz")

UpperAlpha == Chars("ABCDEFGHIJKLMNOPQRSTUVWXYZ")

\* the upper-case letter of every lower-case letter
UpperOf == [c \in {LowerAlpha[k] : k \in 1..26} |->
              UpperAlpha[CHOOSE k \in 1..26 : LowerAlpha[k] = c]]

UpperChar(c) == IF c \in DOMAIN UpperOf THEN UpperOf[c] ELSE c

\* a comparison that forgets to fold the case
UpperNoop(s) == s

\* str.upper()
Upper(s) == [k \in 1..Len(s) |-> UpperChar(s[k])]

\* the sigs dict, in insertion order, one <<ext, sig>> pair a signature
Sigs ==
    << <<Chars(".gif"), Chars("474946383761")>>,
       <<Chars(".gif"), Chars("474946383961")>>,
       <<Chars(".png"), Chars("89504E470D0A1A0A")>>,
       <<Chars(".jpg"), Chars("FFD8FFDB")>>,
       <<Chars(".jpg"), Chars("FFD8FFE000104A4649460001")>> >>

\* the signature at place k of the table equals the upper-cased slice
SigMatches(k, starting_bytes) ==
    Sigs[k][2] = Upper(Take(starting_bytes, Len(Sigs[k][2])))

\* determine_filetype: the extension of the first matching signature, or ""
DetermineFiletype(starting_bytes) ==
    LET hits == {k \in 1..Len(Sigs) : SigMatches(k, starting_bytes)}
    IN  IF hits = {} THEN <<>>
        ELSE Sigs[CHOOSE k \in hits : \A m \in hits : k <= m][1]

\* image[:16].hex()
StartingBytes(image) == Hex(Take(image, 16))

(***************************************************************************)
(* Program constants.                                                      *)
(***************************************************************************)
\* Pool(10)
PoolSize == 10
\* for i in range(10)
MaxAttempts == 10
\* the host main looks for in the URL
Host == Chars("babel.hathitrust.org")

(***************************************************************************)
(* The environment: the image server and the network.                      *)
(***************************************************************************)
RECURSIVE ParseInt(_)
ParseInt(d) ==
    IF d = <<>> THEN 0
    ELSE 10 * ParseInt(SubSeq(d, 1, Len(d) - 1))
         + (CHOOSE k \in 0..9 : DigitChar[k + 1] = d[Len(d)])

\* the positions of url where a seq=<digits> token starts
TokenStarts(url) == {j \in 1..Len(url) : MatchAt(url, j)}

\* the page the server serves for url: its first seq parameter, else page 1
ServedPage(url) ==
    IF TokenStarts(url) = {} THEN 1
    ELSE LET j == CHOOSE a \in TokenStarts(url) : \A b \in TokenStarts(url) : a <= b
         IN  ParseInt(SubSeq(url, j + 4, MatchEnd(url, j)))

\* the bytes the server holds for page n: a jpg, a file of no known type,
\* a png, a gif, in turn, each ending in the page number
PageImage(n) ==
    CASE n % 4 = 1 -> <<255, 216, 255, 219, n % 256>>
      [] n % 4 = 2 -> <<0, 0, n % 256>>
      [] n % 4 = 3 -> <<137, 80, 78, 71, 13, 10, 26, 10, n % 256>>
      [] OTHER     -> <<71, 73, 70, 56, 57, 97, n % 256>>

\* what site.read() returns for url
Serve(url) == PageImage(ServedPage(url))

\* consecutive HTTP errors a flaky page answers before it answers the image
FlakyFails == 2

\* how the network treats the requests of one work item
Kinds == {"ok", "flaky", "down", "bad"}

\* the outcome of the call-th urlopen of a work item of the given kind
Response(kind, call) ==
    CASE kind = "ok"    -> "ok"
      [] kind = "flaky" -> IF call <= FlakyFails THEN "HTTPError" ELSE "ok"
      [] kind = "down"  -> "HTTPError"
      [] OTHER          -> "URLError"

\* the runs considered: every page answers, or all but one do
Plans(n) ==
    {[j \in 1..n |-> "ok"]} \cup
    {[j \in 1..n |-> IF j = k THEN kind ELSE "ok"] :
        k \in 1..n, kind \in Kinds \ {"ok"}}

\* the base URLs of the full runs
RunUrls ==
    { Host \o Chars("/i?id=c;seq=1;size=9"),
      Host \o Chars("/i?id=c;size=9"),
      Chars("example.org/i?seq=1") }

(***************************************************************************)
(* State.                                                                  *)
(***************************************************************************)
VARIABLES
    base_url,       \* args.url
    npages,         \* args.pages
    plan,           \* the network's treatment of each work item
    main_pc,        \* where main / download_images stands
    url_info,       \* the list of (page, url) work items
    nexttask,       \* index of the next work item the pool hands out
    fetch,          \* per work item: the fetch_image call that runs it
    outqueue,       \* the pool's results, in completion order
    nyielded,       \* results imap_unordered has yielded
    files,          \* the target directory: file name -> content
    warnings,       \* pages warned about (unknown file type)
    exc,            \* the exception that left download_images, if any
    writing,        \* the files open for writing: name, data, writing thread
    named,          \* whether the run tells the pool's threads apart
    sniff_pc,       \* a direct call of determine_filetype: "call" or "ret"
    sniff_image,    \* its payload
    sniff_type,     \* its result
    find_pc,        \* a call of find_images: "call" or "ret"
    listing,        \* what listdir returns for its directory
    find_result     \* what the call returns or raises

vars == <<base_url, npages, plan, main_pc, url_info, nexttask, fetch,
          outqueue, nyielded, files, warnings, exc, writing, named,
          sniff_pc, sniff_image, sniff_type, find_pc, listing, find_result>>

runvars == <<base_url, npages, plan, main_pc, url_info, nexttask, fetch,
             outqueue, nyielded, files, warnings, exc, writing, named>>

sniffvars == <<sniff_pc, sniff_image, sniff_type>>

findvars == <<find_pc, listing, find_result>>

\* Python's None
None == [none |-> TRUE]

\* a fetch_image call that has not started
Idle == [pc |-> "queued", i |-> 0, calls |-> 0, sleep_time |-> 0, thread |-> 0]

\* the thread that runs main and download_images, numbered after the
\* pool's threads 1..PoolSize
MainThread == PoolSize + 1

\* the empty directory
NoFiles == [name \in {} |-> <<>>]

\* a write that leaves out the files of no known type
WriteFileIfTyped(dir, name, content) ==
    IF \E k \in 1..Len(name) : name[k] = "."
    THEN [f \in DOMAIN dir \cup {name} |-> IF f = name THEN content ELSE dir[f]]
    ELSE dir

\* the directory after name is given the content: open(name, "wb") empties
\* the file, file.write(image) fills it
WriteFile(dir, name, content) ==
    [f \in DOMAIN dir \cup {name} |-> IF f = name THEN content ELSE dir[f]]

\* work items whose fetch_image call is awake: a pool in which a sleeping
\* call gives its thread back
InFlightAwake == {j \in DOMAIN fetch : fetch[j].pc = "attempt"}

\* work items whose fetch_image call is running, asleep or not
InFlight == {j \in DOMAIN fetch : fetch[j].pc \in {"attempt", "sleep"}}

\* the pool's threads that run no fetch_image call
IdleThreads == (1..PoolSize) \ {fetch[j].thread : j \in InFlight}

\* the idle thread that takes the next work item; the threads are
\* interchangeable, the one of lowest number stands for any of them, and a
\* run that does not tell them apart records none (0)
FreeThread ==
    IF named THEN CHOOSE w \in IdleThreads : \A v \in IdleThreads : w <= v
    ELSE 0

\* a file name made of the extension alone
ImageFileNoPage(page_number, image_type) == Chars("page") \o image_type

\* f"{page_number}{image_type}"
ImageFile(page_number, image_type) == Str(page_number) \o image_type

\* the result of work item j fetched from the first work item's URL
FetchResultFirstUrl(j) == <<url_info[j][1], Serve(url_info[1][2])>>

\* return page, site.read()
FetchResult(j) == <<url_info[j][1], Serve(url_info[j][2])>>

\* a pool that lets one task too many in
SlotFreeOffByOne == Cardinality(InFlight) <= PoolSize

\* one of the pool's threads is idle
SlotFree == Cardinality(InFlight) < PoolSize

\* the pool's threads run: download_images is in its loop. They are daemon
\* threads: an exception that leaves download_images ends main and the
\* process, and the threads with it
PoolAlive == main_pc \in {"download", "write"}

\* the run lets another result in: those waiting and the one being written
\* number fewer than MaxQueued
QueueRoom == Len(outqueue) + Cardinality(writing) < MaxQueued

\* the values of a..b among the MaxDraw lowest and the MaxDraw highest
Sampled(a, b) == {t \in a..b : t - a < MaxDraw \/ b - t < MaxDraw}

\* randint(a, b + 1)
RandintPastEnd(a, b) == Sampled(a, b + 1)

\* randint(a, b): both ends included
Randint(a, b) == Sampled(a, b)

(***************************************************************************)
(* main (lines 37-50).                                                     *)
(***************************************************************************)
\* the URL names the host: the directory is wiped, download_images is called
MainDownload ==
    /\ main_pc = "start"
    /\ Contains(base_url, Host)
    /\ files' = NoFiles
    /\ main_pc' = "called"
    /\ UNCHANGED <<named, base_url, npages, plan, writing, url_info, nexttask, fetch,
                   outqueue, nyielded, warnings, exc>>
    /\ UNCHANGED <<sniffvars, findvars>>

\* "Not a recognized URL, exiting..."
MainUnrecognized ==
    /\ main_pc = "start"
    /\ ~Contains(base_url, Host)
    /\ files' = NoFiles
    /\ main_pc' = "exited"
    /\ UNCHANGED <<named, base_url, npages, plan, writing, url_info, nexttask, fetch,
                   outqueue, nyielded, warnings, exc>>
    /\ UNCHANGED <<sniffvars, findvars>>

(***************************************************************************)
(* download_images (lines 159-174).                                        *)
(***************************************************************************)
\* lines 159-164: the work items are derived and handed to a new pool
BuildUrlInfo ==
    /\ main_pc = "called"
    /\ url_info' = DeriveWorkItems(base_url, npages)
    /\ fetch' = [j \in 1..npages |-> Idle]
    /\ nexttask' = 1
    /\ main_pc' = "download"
    /\ UNCHANGED <<named, base_url, npages, plan, writing, outqueue, nyielded, files,
                   warnings, exc>>
    /\ UNCHANGED <<sniffvars, findvars>>

\* lines 165-172 for a result that is a (page, image) pair: the type is
\* sniffed, a warning given if there is none, the file opened
OpenImage ==
    /\ main_pc = "download"
    /\ outqueue # <<>>
    /\ Head(outqueue).success
    /\ Head(outqueue).value # None
    /\ LET page_number == Head(outqueue).value[1]
           image == Head(outqueue).value[2]
           image_type == DetermineFiletype(StartingBytes(image))
           image_file == ImageFile(page_number, image_type)
       IN  /\ warnings' = IF image_type = <<>> THEN warnings \cup {page_number}
                          ELSE warnings
           /\ files' = WriteFile(files, image_file, <<>>)
           /\ writing' = writing \cup
                {[name |-> image_file, image |-> image, by |-> MainThread]}
    /\ outqueue' = Tail(outqueue)
    /\ nyielded' = nyielded + 1
    /\ main_pc' = "write"
    /\ UNCHANGED <<named, base_url, npages, plan, url_info, nexttask, fetch, exc>>
    /\ UNCHANGED <<sniffvars, findvars>>

\* line 173: the image is written and the file closed
WriteImage ==
    /\ main_pc = "write"
    /\ \E w \in writing :
        /\ w.by = MainThread
        /\ files' = WriteFile(files, w.name, w.image)
        /\ writing' = writing \ {w}
    /\ main_pc' = "download"
    /\ UNCHANGED <<named, base_url, npages, plan, url_info, nexttask, fetch,
                   outqueue, nyielded, warnings, exc>>
    /\ UNCHANGED <<sniffvars, findvars>>

\* line 165 for a result that is None: image_data[0] raises TypeError
SubscriptNone ==
    /\ main_pc = "download"
    /\ outqueue # <<>>
    /\ Head(outqueue).success
    /\ Head(outqueue).value = None
    /\ outqueue' = Tail(outqueue)
    /\ nyielded' = nyielded + 1
    /\ main_pc' = "raised"
    /\ exc' = "TypeError"
    /\ UNCHANGED <<named, base_url, npages, plan, writing, url_info, nexttask, fetch,
                   files, warnings>>
    /\ UNCHANGED <<sniffvars, findvars>>

\* line 164 for a task that raised: the iterator re-raises its exception
Reraise ==
    /\ main_pc = "download"
    /\ outqueue # <<>>
    /\ ~Head(outqueue).success
    /\ outqueue' = Tail(outqueue)
    /\ nyielded' = nyielded + 1
    /\ main_pc' = "raised"
    /\ exc' = Head(outqueue).value
    /\ UNCHANGED <<named, base_url, npages, plan, writing, url_info, nexttask, fetch,
                   files, warnings>>
    /\ UNCHANGED <<sniffvars, findvars>>

\* line 174: every result was yielded, the loop ends
Return ==
    /\ main_pc = "download"
    /\ nyielded = Len(url_info)
    /\ main_pc' = "returned"
    /\ UNCHANGED <<named, base_url, npages, plan, writing, url_info, nexttask, fetch,
                   outqueue, nyielded, files, warnings, exc>>
    /\ UNCHANGED <<sniffvars, findvars>>

(***************************************************************************)
(* The pool's threads and fetch_image (lines 184-195).                     *)
(***************************************************************************)
\* an idle thread takes the next work item and enters fetch_image
TakeTask(j) ==
    /\ PoolAlive
    /\ j = nexttask
    /\ j <= Len(url_info)
    /\ SlotFree
    /\ fetch' = [fetch EXCEPT ![j] =
                    [Idle EXCEPT !.pc = "attempt", !.thread = FreeThread]]
    /\ nexttask' = nexttask + 1
    /\ UNCHANGED <<named, base_url, npages, plan, writing, main_pc, url_info, outqueue,
                   nyielded, files, warnings, exc>>
    /\ UNCHANGED <<sniffvars, findvars>>

\* urlopen answers and the worker itself opens the page's file
AttemptOkWriting(j) ==
    /\ PoolAlive
    /\ j \in DOMAIN fetch
    /\ fetch[j].pc = "attempt"
    /\ Response(plan[j], fetch[j].calls + 1) = "ok"
    /\ LET image == FetchResult(j)[2]
           image_file == ImageFile(FetchResult(j)[1],
                            DetermineFiletype(StartingBytes(image)))
       IN  /\ files' = WriteFile(files, image_file, <<>>)
           /\ writing' = writing \cup
                {[name |-> image_file, image |-> image,
                  by |-> fetch[j].thread]}
    /\ fetch' = [fetch EXCEPT ![j].pc = "done", ![j].calls = @ + 1,
                               ![j].thread = 0]
    /\ UNCHANGED <<named, base_url, npages, plan, main_pc, url_info, nexttask,
                   outqueue, nyielded, warnings, exc>>
    /\ UNCHANGED <<sniffvars, findvars>>

\* lines 189-191: urlopen answers, (page, site.read()) is the result
AttemptOk(j) ==
    /\ PoolAlive
    /\ j \in DOMAIN fetch
    /\ fetch[j].pc = "attempt"
    /\ Response(plan[j], fetch[j].calls + 1) = "ok"
    /\ QueueRoom
    /\ fetch' = [fetch EXCEPT ![j].pc = "done", ![j].calls = @ + 1,
                               ![j].thread = 0]
    /\ outqueue' = Append(outqueue,
            [job |-> j, success |-> TRUE,
             value |-> FetchResult(j)])
    /\ UNCHANGED <<named, base_url, npages, plan, writing, main_pc, url_info, nexttask,
                   nyielded, files, warnings, exc>>
    /\ UNCHANGED <<sniffvars, findvars>>

\* lines 192-195: urlopen raises HTTPError, a sleep time is drawn
AttemptHTTPError(j) ==
    /\ PoolAlive
    /\ j \in DOMAIN fetch
    /\ fetch[j].pc = "attempt"
    /\ Response(plan[j], fetch[j].calls + 1) = "HTTPError"
    /\ \E t \in Randint(0, (2 ^ fetch[j].i) - 1) :
        fetch' = [fetch EXCEPT ![j].pc = "sleep", ![j].calls = @ + 1,
                               ![j].sleep_time = t]
    /\ UNCHANGED <<named, base_url, npages, plan, writing, main_pc, url_info, nexttask,
                   outqueue, nyielded, files, warnings, exc>>
    /\ UNCHANGED <<sniffvars, findvars>>

\* the sleep ends and the loop goes to its next round
Retry(j) ==
    /\ PoolAlive
    /\ j \in DOMAIN fetch
    /\ fetch[j].pc = "sleep"
    /\ fetch[j].i + 1 < MaxAttempts
    /\ fetch' = [fetch EXCEPT ![j].pc = "attempt", ![j].i = @ + 1,
                               ![j].sleep_time = 0]
    /\ UNCHANGED <<named, base_url, npages, plan, writing, main_pc, url_info, nexttask,
                   outqueue, nyielded, files, warnings, exc>>
    /\ UNCHANGED <<sniffvars, findvars>>

\* the sleep ends and the loop is exhausted: fetch_image falls off its end
\* and the result is None
FallOffEnd(j) ==
    /\ PoolAlive
    /\ j \in DOMAIN fetch
    /\ fetch[j].pc = "sleep"
    /\ fetch[j].i + 1 >= MaxAttempts
    /\ QueueRoom
    /\ fetch' = [fetch EXCEPT ![j].pc = "done", ![j].i = @ + 1,
                               ![j].sleep_time = 0, ![j].thread = 0]
    /\ outqueue' = Append(outqueue,
            [job |-> j, success |-> TRUE, value |-> None])
    /\ UNCHANGED <<named, base_url, npages, plan, writing, main_pc, url_info, nexttask,
                   nyielded, files, warnings, exc>>
    /\ UNCHANGED <<sniffvars, findvars>>

\* urlopen raises an error that is no HTTPError: it leaves fetch_image and
\* the pool stores it as the task's failure
AttemptOtherError(j) ==
    /\ PoolAlive
    /\ j \in DOMAIN fetch
    /\ fetch[j].pc = "attempt"
    /\ Response(plan[j], fetch[j].calls + 1) = "URLError"
    /\ QueueRoom
    /\ fetch' = [fetch EXCEPT ![j].pc = "done", ![j].calls = @ + 1,
                               ![j].thread = 0]
    /\ outqueue' = Append(outqueue,
            [job |-> j, success |-> FALSE, value |-> "URLError"])
    /\ UNCHANGED <<named, base_url, npages, plan, writing, main_pc, url_info, nexttask,
                   nyielded, files, warnings, exc>>
    /\ UNCHANGED <<sniffvars, findvars>>

(***************************************************************************)
(* The full run: main with the download flag set.                          *)
(***************************************************************************)
Init ==
    /\ base_url \in RunUrls
    /\ npages \in 1..MaxPages
    /\ plan \in Plans(npages)
    /\ main_pc = "start"
    /\ url_info = <<>>
    /\ nexttask = 1
    /\ fetch = <<>>
    /\ outqueue = <<>>
    /\ nyielded = 0
    /\ files = NoFiles
    /\ warnings = {}
    /\ exc = ""
    /\ writing = {}
    /\ named = TRUE
    /\ sniff_pc = "off"
    /\ sniff_image = <<>>
    /\ sniff_type = <<>>
    /\ find_pc = "off"
    /\ listing = <<>>
    /\ find_result = None

Next ==
    \/ MainDownload
    \/ MainUnrecognized
    \/ BuildUrlInfo
    \/ OpenImage
    \/ WriteImage
    \/ SubscriptNone
    \/ Reraise
    \/ Return
    \/ \E j \in 1..npages : TakeTask(j)
    \/ \E j \in 1..npages : AttemptOk(j)
    \/ \E j \in 1..npages : AttemptHTTPError(j)
    \/ \E j \in 1..npages : Retry(j)
    \/ \E j \in 1..npages : FallOffEnd(j)
    \/ \E j \in 1..npages : AttemptOtherError(j)

Spec == Init /\ [][Next]_vars

(***************************************************************************)
(* download_images called on its own, for the work items it derives.       *)
(***************************************************************************)
\* the pieces templated base URLs are put together from
Segments ==
    { Chars("seq=7"), Chars("seq=12"), Chars("seq="), Chars("5"),
      Chars(";"), Chars("q") }

RECURSIVE Concat(_)
Concat(ss) == IF ss = <<>> THEN <<>> ELSE Head(ss) \o Concat(Tail(ss))

\* every base URL of one to MaxSegs segments
UrlInputs ==
    UNION {{Concat(ss) : ss \in [1..n -> Segments]} : n \in 1..MaxSegs}

InitUrl ==
    /\ base_url \in UrlInputs
    /\ npages \in 1..(PoolSize + MaxExtra)
    /\ plan = [j \in 1..npages |-> "ok"]
    /\ main_pc = "called"
    /\ url_info = <<>>
    /\ nexttask = 1
    /\ fetch = <<>>
    /\ outqueue = <<>>
    /\ nyielded = 0
    /\ files = NoFiles
    /\ warnings = {}
    /\ exc = ""
    /\ writing = {}
    /\ named = TRUE
    /\ sniff_pc = "off"
    /\ sniff_image = <<>>
    /\ sniff_type = <<>>
    /\ find_pc = "off"
    /\ listing = <<>>
    /\ find_result = None

NextUrl == BuildUrlInfo

SpecUrl == InitUrl /\ [][NextUrl]_vars

(***************************************************************************)
(* Runs of more pages than the pool has threads, every page answering.     *)
(***************************************************************************)
InitPool ==
    /\ base_url = Host \o Chars("/i?seq=1")
    /\ npages \in (PoolSize + 1)..(PoolSize + MaxExtra)
    /\ plan = [j \in 1..npages |-> "ok"]
    /\ main_pc = "start"
    /\ url_info = <<>>
    /\ nexttask = 1
    /\ fetch = <<>>
    /\ outqueue = <<>>
    /\ nyielded = 0
    /\ files = NoFiles
    /\ warnings = {}
    /\ exc = ""
    /\ writing = {}
    /\ named = FALSE
    /\ sniff_pc = "off"
    /\ sniff_image = <<>>
    /\ sniff_type = <<>>
    /\ find_pc = "off"
    /\ listing = <<>>
    /\ find_result = None

NextPool ==
    \/ MainDownload
    \/ BuildUrlInfo
    \/ OpenImage
    \/ WriteImage
    \/ Return
    \/ \E j \in 1..npages : TakeTask(j)
    \/ \E j \in 1..npages : AttemptOk(j)

SpecPool == InitPool /\ [][NextPool]_vars

(***************************************************************************)
(* determine_filetype called on its own (lines 167-168, 198-208).          *)
(***************************************************************************)
\* the signatures as bytes: GIF87a, GIF89a, PNG, JPEG raw, JPEG/JFIF
SignatureBytes ==
    { <<71, 73, 70, 56, 55, 97>>,
      <<71, 73, 70, 56, 57, 97>>,
      <<137, 80, 78, 71, 13, 10, 26, 10>>,
      <<255, 216, 255, 219>>,
      <<255, 216, 255, 224, 0, 16, 74, 70, 73, 70, 0, 1>> }

\* what follows a signature prefix in the payloads tried
Tails == UNION {[1..n -> {0, 171}] : n \in 0..MaxTail}

\* every prefix of every signature, followed by every tail, and every
\* signature followed by sixteen bytes
SniffInputs ==
    {Take(sig, k) \o t : sig \in SignatureBytes, k \in 0..12, t \in Tails}
    \cup {sig \o [k \in 1..16 |-> 7] : sig \in SignatureBytes}

Sniff ==
    /\ sniff_pc = "call"
    /\ sniff_type' = DetermineFiletype(StartingBytes(sniff_image))
    /\ sniff_pc' = "ret"
    /\ UNCHANGED sniff_image
    /\ UNCHANGED <<runvars, findvars>>

InitSniff ==
    /\ base_url = <<>>
    /\ npages = 0
    /\ plan = <<>>
    /\ main_pc = "off"
    /\ url_info = <<>>
    /\ nexttask = 1
    /\ fetch = <<>>
    /\ outqueue = <<>>
    /\ nyielded = 0
    /\ files = NoFiles
    /\ warnings = {}
    /\ exc = ""
    /\ writing = {}
    /\ named = TRUE
    /\ sniff_pc = "call"
    /\ sniff_image \in SniffInputs
    /\ sniff_type = <<>>
    /\ find_pc = "off"
    /\ listing = <<>>
    /\ find_result = None

NextSniff == Sniff

SpecSniff == InitSniff /\ [][NextSniff]_vars

(***************************************************************************)
(* find_images and is_image (lines 227-238).                               *)
(***************************************************************************)
\* image_types
ImageTypes == {Chars("jpg"), Chars("png"), Chars("gif")}

\* s.split(sep): the pieces of s between the occurrences of sep
RECURSIVE Split(_, _)
Split(s, sep) ==
    IF \E k \in 1..Len(s) : s[k] = sep
    THEN LET k == CHOOSE m \in 1..Len(s) :
                    /\ s[m] = sep
                    /\ \A q \in 1..(m - 1) : s[q] # sep
         IN <<SubSeq(s, 1, k - 1)>> \o Split(SubSeq(s, k + 1, Len(s)), sep)
    ELSE <<s>>

\* is_image(filename): the piece after the last dot is an image type
IsImage(filename) ==
    LET pieces == Split(filename, ".")
    IN pieces[Len(pieces)] \in ImageTypes

\* s.strip() for the blank
RECURSIVE Strip(_)
Strip(s) ==
    IF s # <<>> /\ s[1] = " " THEN Strip(Tail(s))
    ELSE IF s # <<>> /\ s[Len(s)] = " " THEN Strip(SubSeq(s, 1, Len(s) - 1))
    ELSE s

\* int(s): blanks around, a sign, digits with single underscores between
\* them; anything else is a ValueError (ok = FALSE)
IntOf(s) ==
    LET t == Strip(s)
        signed == t # <<>> /\ t[1] \in {"+", "-"}
        body == IF signed THEN Tail(t) ELSE t
        wellformed ==
            /\ body # <<>>
            /\ \A k \in 1..Len(body) :
                \/ body[k] \in Digits
                \/ /\ body[k] = "_"
                   /\ 1 < k /\ k < Len(body)
                   /\ body[k - 1] \in Digits
                   /\ body[k + 1] \in Digits
        magnitude == ParseInt(SelectSeq(body, LAMBDA c : c \in Digits))
    IN IF ~wellformed THEN [ok |-> FALSE, value |-> 0]
       ELSE [ok |-> TRUE,
             value |-> IF signed /\ t[1] = "-" THEN 0 - magnitude
                       ELSE magnitude]

\* int() of the first character of the piece before the first dot
SortKeyLeadingDigit(x) == IntOf(Take(Split(x, ".")[1], 1))

\* the sort key: int(x.split(".")[0])
SortKey(x) == IntOf(Split(x, ".")[1])

\* x put into the sorted list after every entry whose key is not larger
Insert(x, sorted) ==
    LET n == Cardinality({k \in 1..Len(sorted) :
                    SortKey(sorted[k]).value <= SortKey(x).value})
    IN SubSeq(sorted, 1, n) \o <<x>> \o SubSeq(sorted, n + 1, Len(sorted))

\* sorted(images, key=...): ascending by key, equal keys in the given order
RECURSIVE Sorted(_)
Sorted(images) ==
    IF images = <<>> THEN <<>>
    ELSE Insert(images[Len(images)],
                Sorted(SubSeq(images, 1, Len(images) - 1)))

\* the directory find_images is called on
ImageDirectory == Chars("img")

\* os.path.join(directory, image) for a directory entry
Join(directory, image) == directory \o <<"/">> \o image

\* the entries of listing that pass is_image, in listing order
Images == SelectSeq(listing, IsImage)

\* find_images returns the list
FindImages ==
    /\ find_pc = "call"
    /\ \A k \in 1..Len(Images) : SortKey(Images[k]).ok
    /\ find_result' =
          [ok |-> TRUE,
           images |-> [k \in 1..Len(Images) |->
                          Join(ImageDirectory, Sorted(Images)[k])]]
    /\ find_pc' = "ret"
    /\ UNCHANGED listing
    /\ UNCHANGED <<runvars, sniffvars>>

\* a sort key raises ValueError, which leaves find_images
FindImagesValueError ==
    /\ find_pc = "call"
    /\ \E k \in 1..Len(Images) : ~SortKey(Images[k]).ok
    /\ find_result' = [ok |-> FALSE, images |-> <<>>]
    /\ find_pc' = "ret"
    /\ UNCHANGED listing
    /\ UNCHANGED <<runvars, sniffvars>>

\* the file names a directory is made of
Names ==
    { Chars("1.jpg"), Chars("3.png"), Chars("10.gif"), Chars("3.jpg"),
      Chars("07.gif"), Chars("2"), Chars("2.txt"), Chars("cover.jpg"),
      Chars("1.5.jpg"), Chars("jpg"), Chars(".png"), Chars("1_2.png") }

\* the directory listings tried: up to MaxFiles distinct names in any order
Listings ==
    {l \in UNION {[1..n -> Names] : n \in 0..MaxFiles} :
        \A a, b \in 1..Len(l) : a # b => l[a] # l[b]}

InitFind ==
    /\ base_url = <<>>
    /\ npages = 0
    /\ plan = <<>>
    /\ main_pc = "off"
    /\ url_info = <<>>
    /\ nexttask = 1
    /\ fetch = <<>>
    /\ outqueue = <<>>
    /\ nyielded = 0
    /\ files = NoFiles
    /\ warnings = {}
    /\ exc = ""
    /\ writing = {}
    /\ named = TRUE
    /\ sniff_pc = "off"
    /\ sniff_image = <<>>
    /\ sniff_type = <<>>
    /\ find_pc = "call"
    /\ listing \in Listings
    /\ find_result = None

NextFind ==
    \/ FindImages
    \/ FindImagesValueError

SpecFind == InitFind /\ [][NextFind]_vars


(***************************************************************************)
(* Properties.                                                             *)
(***************************************************************************)
\* the run is over: download_images returned or an exception left it
RunOver == main_pc \in {"returned", "raised"}

\* the file a successful fetch of work item j is written to
ExpectedName(j) ==
    Str(url_info[j][1])
        \o DetermineFiletype(StartingBytes(Serve(url_info[j][2])))

\* work items whose every attempt ends in an HTTP error
DownPages == {j \in 1..npages : plan[j] = "down"}

\* work items whose attempt ends in an error that is no HTTP error
BadPages == {j \in 1..npages : plan[j] = "bad"}

\* C1: when exactly the fetch of one page k ends in terminal failure (all
\* ten attempts answer an HTTP error) and every other page's fetch
\* succeeds, download_images completes with no exception escaping and the
\* files written are exactly those of the pages other than k.
C1_PartialFailureTolerated ==
    (RunOver /\ DownPages # {} /\ \A j \in 1..npages \ DownPages : plan[j] = "ok")
        => /\ main_pc = "returned"
           /\ DOMAIN files = {ExpectedName(j) : j \in 1..npages \ DownPages}

\* the files of the run in which the results arrive in submission order:
\* those of the pages before the first page that yields no payload
InOrderFiles ==
    {ExpectedName(j) : j \in {m \in 1..npages :
        \A q \in 1..m : plan[q] \in {"ok", "flaky"}}}

\* C2: for a fixed assignment of per-page outcomes every interleaving of
\* completions leaves the same final set of stored files: the one the run
\* with in-order completions leaves.
C2_FilesIndependentOfCompletionOrder ==
    RunOver => DOMAIN files = InOrderFiles

\* C3: at most 10 fetches are in flight in every state, and a work item
\* beyond the first 10 has started only if enough earlier ones are done.
C3_AtMostTenInFlight ==
    /\ Cardinality(InFlight) <= 10
    /\ \A j \in DOMAIN fetch :
        (j > 10 /\ fetch[j].pc # "queued")
            => Cardinality({m \in 1..(j - 1) : fetch[m].pc = "done"}) >= j - 10

\* ten fetches are in flight and a work item waits for a free thread
C3_Witness ==
    /\ Cardinality(InFlight) = 10
    /\ \E j \in DOMAIN fetch : j > 10 /\ fetch[j].pc = "queued"

\* C4: a fetch makes at most 10 attempts, and the outcome of a fetch whose
\* 10 attempts failed carries the page index (and the last error).
C4_TerminalFailureCarriesPage ==
    /\ \A j \in DOMAIN fetch : fetch[j].calls <= 10
    /\ \A k \in 1..Len(outqueue) :
        fetch[outqueue[k].job].calls = 10
            => /\ outqueue[k].value # None
               /\ outqueue[k].value[1] = url_info[outqueue[k].job][1]

\* C5 as stated: the sleep drawn at attempt i is in [0, 2^i - 1).
C5_SleepBelowBound ==
    \A j \in DOMAIN fetch :
        fetch[j].pc = "sleep"
            => /\ fetch[j].i \in 0..9
               /\ 0 <= fetch[j].sleep_time
               /\ fetch[j].sleep_time < (2 ^ fetch[j].i) - 1

\* C5 as amended: the sleep drawn at attempt i, i in 0..9, is in the closed
\* interval [0, 2^i - 1].
C5_SleepWithinClosedBound ==
    \A j \in DOMAIN fetch :
        fetch[j].pc = "sleep"
            => /\ fetch[j].i \in 0..9
               /\ 0 <= fetch[j].sleep_time
               /\ fetch[j].sleep_time <= (2 ^ fetch[j].i) - 1

\* a fetch sleeps for the largest time its last attempt allows
C5_Witness ==
    \E j \in DOMAIN fetch :
        fetch[j].pc = "sleep" /\ fetch[j].i = 9 /\ fetch[j].sleep_time = 511

\* C6: an error that is no HTTP error is not retried and fails its page
\* only: no exception leaves download_images and the other pages are
\* fetched and written.
C6_OtherErrorStaysWithItsPage ==
    BadPages # {}
        => /\ \A j \in BadPages \cap DOMAIN fetch : fetch[j].calls <= 1
           /\ main_pc # "raised"
           /\ main_pc = "returned"
                => DOMAIN files = {ExpectedName(j) : j \in 1..npages \ BadPages}

\* C7: download_images builds exactly N work items, with the page indices
\* 1..N in ascending order.
C7_WorkItemsAreOneToN ==
    main_pc = "download"
        => /\ Len(url_info) = npages
           /\ \A k \in 1..Len(url_info) : url_info[k][1] = k

\* work items were built for a page count above the pool width
C7_Witness ==
    /\ main_pc = "download"
    /\ npages > 10
    /\ url_info[npages][1] = npages

\* the first seq=<digits> token of s
FirstToken(s) ==
    CHOOSE a \in TokenStarts(s) : \A b \in TokenStarts(s) : a <= b

\* s with its first token alone replaced by seq=<i>
FirstReplaced(s, i) ==
    SubSeq(s, 1, FirstToken(s) - 1) \o Chars("seq=") \o Str(i)
        \o SubSeq(s, MatchEnd(s, FirstToken(s)) + 1, Len(s))

\* C8 as stated: the request URL of page i is the base URL with only the
\* first seq=<digits> token replaced by seq=i.
C8_OnlyFirstTokenReplaced ==
    (main_pc = "download" /\ TokenStarts(base_url) # {})
        => \A k \in 1..Len(url_info) :
            url_info[k][2] = FirstReplaced(base_url, url_info[k][1])

\* the positions of s that hold the digits of a token
TokenDigitPos(s) ==
    {p \in 1..Len(s) :
        \E j \in TokenStarts(s) : j + 4 <= p /\ p <= MatchEnd(s, j)}

\* s without the digits of its tokens
Residue(s) ==
    LET keep == (1..Len(s)) \ TokenDigitPos(s)
    IN  [n \in 1..Cardinality(keep) |->
            s[CHOOSE p \in keep : Cardinality({q \in keep : q <= p}) = n]]

\* C8 as amended: the request URL of page i is the base URL with every
\* seq=<digits> token replaced by seq=i: it has as many tokens, each
\* token's digits are the decimal form of i, and all else is unchanged.
C8_EveryTokenReplaced ==
    (main_pc = "download" /\ TokenStarts(base_url) # {})
        => \A k \in 1..Len(url_info) :
            LET u == url_info[k][2]
            IN  /\ Residue(u) = Residue(base_url)
                /\ Cardinality(TokenStarts(u)) = Cardinality(TokenStarts(base_url))
                /\ \A j \in TokenStarts(u) :
                    /\ u[j + 4] # "0"
                    /\ ParseInt(SubSeq(u, j + 4, MatchEnd(u, j))) = url_info[k][1]

\* work items were built from a base URL of two tokens or more, and the
\* second token of a request URL is not the one of the base URL
C8_Witness ==
    /\ main_pc = "download"
    /\ Cardinality(TokenStarts(base_url)) >= 2
    /\ \E k \in 1..Len(url_info) :
        url_info[k][2] # FirstReplaced(base_url, url_info[k][1])

\* C9: a base URL with no seq=<digits> token ends the run before any
\* network activity: no fetch is ever dispatched.
C9_NoTokenNoFetch ==
    TokenStarts(base_url) = {}
        => \A j \in DOMAIN fetch : fetch[j].pc = "queued" /\ fetch[j].calls = 0

\* the table of C10, as bytes, in its order
ClaimedTable ==
    << <<Chars(".gif"), <<71, 73, 70, 56, 55, 97>> >>,
       <<Chars(".gif"), <<71, 73, 70, 56, 57, 97>> >>,
       <<Chars(".png"), <<137, 80, 78, 71, 13, 10, 26, 10>> >>,
       <<Chars(".jpg"), <<255, 216, 255, 219>> >>,
       <<Chars(".jpg"), <<255, 216, 255, 224, 0, 16, 74, 70, 73, 70, 0, 1>> >> >>

\* the signature at place k of the table starts the payload
StartsWith(image, k) ==
    /\ Len(ClaimedTable[k][2]) <= Len(image)
    /\ \A m \in 1..Len(ClaimedTable[k][2]) : image[m] = ClaimedTable[k][2][m]

\* C10: determine_filetype returns the type of the first signature of the
\* table that starts the payload, the empty extension when none does, and
\* never a type whose signatures are all longer than the payload.
C10_FirstSignatureWins ==
    sniff_pc = "ret"
        => /\ \A k \in 1..Len(ClaimedTable) :
                (StartsWith(sniff_image, k)
                    /\ \A m \in 1..(k - 1) : ~StartsWith(sniff_image, m))
                    => sniff_type = ClaimedTable[k][1]
           /\ (\A k \in 1..Len(ClaimedTable) : ~StartsWith(sniff_image, k))
                => sniff_type = <<>>
           /\ \A k \in 1..Len(ClaimedTable) :
                (\A m \in 1..Len(ClaimedTable) :
                    ClaimedTable[m][1] = ClaimedTable[k][1]
                        => Len(sniff_image) < Len(ClaimedTable[m][2]))
                    => sniff_type # ClaimedTable[k][1]

\* a payload that is the JFIF signature cut short is sniffed as unknown,
\* and nothing fails
C10_Witness ==
    /\ sniff_pc = "ret"
    /\ sniff_image = <<255, 216, 255, 224, 0, 16, 74>>
    /\ sniff_type = <<>>

\* a directory entry named <digits>.<gif|png|jpg>
IsPageFile(name) ==
    LET pieces == Split(name, ".")
    IN /\ Len(pieces) = 2
       /\ pieces[1] # <<>>
       /\ \A k \in 1..Len(pieces[1]) : pieces[1][k] \in Digits
       /\ pieces[2] \in ImageTypes

\* the integer a page file is named after
PageOf(name) == ParseInt(Split(name, ".")[1])

\* the orders the entries of a listing can be put in
Orders(n) == {p \in [1..n -> 1..n] : \A a, b \in 1..n : a # b => p[a] # p[b]}

\* C11: for a directory of files named <integer>.<gif|png|jpg> with
\* pairwise distinct integers, find_images returns exactly those files,
\* each once, in strictly ascending order of the integer (10 after 3), and
\* nothing stands in for a missing index.
C11_NumericOrder ==
    (/\ find_pc = "ret"
     /\ \A k \in 1..Len(listing) : IsPageFile(listing[k])
     /\ \A a, b \in 1..Len(listing) :
            a # b => PageOf(listing[a]) # PageOf(listing[b]))
        => /\ find_result.ok
           /\ \E p \in Orders(Len(listing)) :
                /\ find_result.images =
                      [k \in 1..Len(listing) |->
                          Join(ImageDirectory, listing[p[k]])]
                /\ \A a, b \in 1..Len(listing) :
                      a < b => PageOf(listing[p[a]]) < PageOf(listing[p[b]])

\* listdir hands out 10.gif, 3.png, 1.jpg and find_images returns them as
\* 1.jpg, 3.png, 10.gif, with no entry for page 2
C11_Witness ==
    /\ find_pc = "ret"
    /\ listing = <<Chars("10.gif"), Chars("3.png"), Chars("1.jpg")>>
    /\ find_result.ok
    /\ find_result.images =
          <<Chars("img/1.jpg"), Chars("img/3.png"), Chars("img/10.gif")>>

\* the part of a name after its last dot; empty when it has no dot
Extension(name) ==
    LET pieces == Split(name, ".")
    IN IF Len(pieces) = 1 THEN <<>> ELSE pieces[Len(pieces)]

\* the part of a name before its extension
Stem(name) ==
    IF Extension(name) = <<>> /\ (name = <<>> \/ name[Len(name)] # ".")
    THEN name
    ELSE SubSeq(name, 1, Len(name) - Len(Extension(name)) - 1)

\* a file with a known image extension whose stem is no integer
Malformed(name) == Extension(name) \in ImageTypes /\ ~IntOf(Stem(name)).ok

\* C12: when the directory holds a file with extension gif, png or jpg whose
\* name before the extension is not parseable as an integer (cover.jpg,
\* 1.5.jpg), find_images fails with an error and returns no list.
C12_MalformedNameFails ==
    (find_pc = "ret" /\ \E k \in 1..Len(listing) : Malformed(listing[k]))
        => ~find_result.ok

\* C15: find_images returns only files whose extension is gif, png or jpg,
\* and files with an unknown or empty extension raise no error: a directory
\* whose files with a known extension are all well named yields a list.
C15_OtherFilesSilentlyExcluded ==
    find_pc = "ret"
        => /\ find_result.ok
                => \A k \in 1..Len(find_result.images) :
                     \E m \in 1..Len(listing) :
                        /\ find_result.images[k] =
                              Join(ImageDirectory, listing[m])
                        /\ Extension(listing[m]) \in ImageTypes
           /\ (\A m \in 1..Len(listing) : ~Malformed(listing[m]))
                => find_result.ok

\* the fetch of work item k has ended and its last urlopen answered
FetchSucceeded(k) ==
    /\ k \in DOMAIN fetch
    /\ fetch[k].pc = "done"
    /\ Response(plan[k], fetch[k].calls) = "ok"

\* the digits a file name starts with
NumericToken(name) ==
    SubSeq(name, 1, Cardinality({k \in 1..Len(name) :
                        \A q \in 1..k : name[q] \in Digits}))

\* C13: in every state of a download of N pages into an empty directory the
\* stored files start with pairwise distinct numeric tokens, every token is
\* in 1..N, and a file with token k exists only if the fetch of page k
\* succeeded.
C13_StoredFileInvariant ==
    /\ \A name \in DOMAIN files :
        /\ NumericToken(name) # <<>>
        /\ ParseInt(NumericToken(name)) \in 1..npages
        /\ FetchSucceeded(ParseInt(NumericToken(name)))
    /\ \A a, b \in DOMAIN files :
        a # b => ParseInt(NumericToken(a)) # ParseInt(NumericToken(b))

\* two pages are stored and a third one, whose attempts all failed, has
\* ended without a file
C13_Witness ==
    /\ Cardinality(DOMAIN files) = 2
    /\ \E k \in DOMAIN fetch :
        /\ plan[k] = "down"
        /\ fetch[k].pc = "done"
        /\ \A name \in DOMAIN files : ParseInt(NumericToken(name)) # k

\* the result of work item k has been taken from the pool's results
Consumed(k) ==
    /\ FetchSucceeded(k)
    /\ \A q \in 1..Len(outqueue) : outqueue[q].job # k

\* the payload of work item k matches no signature
UnknownType(k) ==
    DetermineFiletype(StartingBytes(Serve(url_info[k][2]))) = <<>>

\* C14: for a fetched page whose payload matches no signature,
\* download_images warns and writes the whole payload to the file named by
\* the page index alone; no exception comes of it and the pages after it
\* are written as well.
C14_UnknownTypeDegraded ==
    /\ \A k \in DOMAIN fetch :
        (Consumed(k) /\ UnknownType(k))
            => /\ url_info[k][1] \in warnings
               /\ Str(url_info[k][1]) \in DOMAIN files
               /\ \/ files[Str(url_info[k][1])] = Serve(url_info[k][2])
                  \/ \E w \in writing :
                        /\ w.name = Str(url_info[k][1])
                        /\ w.image = Serve(url_info[k][2])
    /\ (\A j \in 1..npages : plan[j] \in {"ok", "flaky"})
        => /\ main_pc # "raised"
           /\ main_pc = "returned"
                => \A j \in 1..npages : ExpectedName(j) \in DOMAIN files

\* page 2 of 3 is of no known type: the run has returned, the page was
\* warned about, the file 2 holds its payload and page 3 is stored too
C14_Witness ==
    /\ main_pc = "returned"
    /\ npages = 3
    /\ 2 \in warnings
    /\ Chars("2") \in DOMAIN files
    /\ files[Chars("2")] = <<0, 0, 2>>
    /\ Chars("3.png") \in DOMAIN files

\* page j is in its final state Written: its file holds its payload
Written(j) ==
    /\ FetchSucceeded(j)
    /\ ExpectedName(j) \in DOMAIN files
    /\ files[ExpectedName(j)] = Serve(url_info[j][2])
    /\ \A w \in writing : w.name # ExpectedName(j)

\* page j is in its final state Failed-Terminal: its fetch has ended
\* without a payload
FailedTerminal(j) ==
    /\ j \in DOMAIN fetch
    /\ fetch[j].pc = "done"
    /\ ~FetchSucceeded(j)

\* C16: every page of a batch reaches one of the final states Written and
\* Failed-Terminal, whatever the outcomes of the other pages: a run whose
\* threads, all scheduled fairly, have no step left has every page final.
C16_EveryPageEndsFinal ==
    (url_info # <<>> /\ ~ENABLED Next)
        => \A j \in 1..npages : Written(j) \/ FailedTerminal(j)

\* C17: in every interleaving of completions the file <k><extension> holds
\* the payload fetched from the URL derived for page k (nothing yet while
\* it is being written), its extension is the one sniffed from that
\* payload, and every result waiting in the pool pairs a page with the
\* payload of that page's URL.
C17_PayloadStaysWithPage ==
    /\ \A name \in DOMAIN files :
        LET k == ParseInt(NumericToken(name))
        IN /\ k \in 1..Len(url_info)
           /\ name = ExpectedName(k)
           /\ \/ files[name] = Serve(url_info[k][2])
              \/ /\ files[name] = <<>>
                 /\ \E w \in writing :
                      w.name = name /\ w.image = Serve(url_info[k][2])
    /\ \A q \in 1..Len(outqueue) :
        (outqueue[q].success /\ outqueue[q].value # None)
            => /\ outqueue[q].value[1] = url_info[outqueue[q].job][1]
               /\ outqueue[q].value[2] = Serve(url_info[outqueue[q].job][2])

\* pages 2 and 3 completed before page 1: their files hold their own
\* payloads while page 1 has no file yet
C17_Witness ==
    /\ Chars("1.jpg") \notin DOMAIN files
    /\ Chars("2") \in DOMAIN files
    /\ files[Chars("2")] = <<0, 0, 2>>
    /\ Chars("3.png") \in DOMAIN files
    /\ files[Chars("3.png")] = <<137, 80, 78, 71, 13, 10, 26, 10, 3>>

\* work item j is run by a worker: between its first attempt and its outcome
Running(j) == j \in DOMAIN fetch /\ fetch[j].pc \in {"attempt", "sleep"}

\* C18: from the first attempt of a page to its outcome, backoff sleeps
\* included, the page stays with the same worker, that worker runs no other
\* page, and the page never goes back to the queue.
C18_FetchKeepsItsWorker ==
    [][/\ \A j \in DOMAIN fetch :
            Running(j)
                => /\ fetch'[j].pc # "queued"
                   /\ fetch[j].thread \in 1..PoolSize
                   /\ Running(j)' => fetch'[j].thread = fetch[j].thread
       /\ \A j, m \in DOMAIN fetch' :
            (j # m /\ Running(j)' /\ Running(m)')
                => fetch'[j].thread # fetch'[m].thread]_vars

\* a page is at its third attempt on worker 1 while worker 2 fetches
\* another page
C18_Witness ==
    \E j, m \in DOMAIN fetch :
        /\ fetch[j].pc = "attempt"
        /\ fetch[j].i = 2
        /\ fetch[j].thread = 1
        /\ fetch[m].pc = "attempt"
        /\ fetch[m].thread = 2

\* C19: a backoff sleep is always followed by another attempt for the same
\* page: no fetch sleeps after its tenth failed attempt, so k failed
\* attempts come with at most k - 1 sleeps.
C19_NoSleepAfterLastAttempt ==
    \A j \in DOMAIN fetch :
        fetch[j].pc = "sleep" => fetch[j].calls < MaxAttempts

\* C20: in every state at most one page file is being written, and the
\* thread writing it is the one that consumes the pool's results, never a
\* worker; two writes never overlap.
C20_WritesByCoordinatorOnly ==
    /\ Cardinality(writing) <= 1
    /\ \A w \in writing : w.by = MainThread /\ w.by \notin 1..PoolSize
    /\ writing # {} <=> main_pc = "write"

\* the coordinator writes the file of page 2 while a worker fetches
\* another page
C20_Witness ==
    /\ \E w \in writing : w.name = Chars("2") /\ w.by = MainThread
    /\ \E j \in DOMAIN fetch : fetch[j].pc = "attempt" /\ fetch[j].thread \in 1..PoolSize

=============================================================================
